---------------------------- MODULE Spec2Model ----------------------------
(***************************************************************************)
(* Timer call-site profiler (scripts/performance-profiler.js).             *)
(*                                                                         *)
(* The process-wide timer bindings are wrapped for one observation window, *)
(* every wrapped scheduling call is attributed to a signature derived from *)
(* the captured stack trace, and after the window the originals are        *)
(* restored and a ranked report is rendered.                               *)
(*                                                                         *)
(* A stack trace is the string `new Error().stack` evaluated to, written   *)
(* here with " | " between its lines; "" stands for an absent (undefined   *)
(* or empty) stack and StructuredStack for a value that is not a string (a *)
(* host that overrides Error.prepareStackTrace).  Lines(stack) is          *)
(* stack.split('\n'), each line a record [lead, fn, dir, base, line, col]: *)
(* what the trimmed text starts with ("at " for a V8 frame, "at\t" for a   *)
(* frame whose "at" is followed by a tab, "text" for a non-blank line      *)
(* holding no frame, "" for a blank line), then the frame's function name  *)
(* ("" when there is none), the directory prefix of its path, the last     *)
(* path segment, the line number and the column.                           *)
(***************************************************************************)
EXTENDS Integers, Sequences, FiniteSets, TLC

VARIABLES
    pc,            \* position of runProfiler
    globals,       \* the four process-wide bindings
    originals,     \* originalSetTimeout .. originalClearInterval
    timerStats,    \* Map signature -> record, as the sequence of its values in insertion order
    activeTimers,  \* Set of timer handles
    timers,        \* the runtime's timers: the handle of timers[i] is i
    stackMode,     \* what `new Error().stack` evaluates to in this process
    snippets,      \* the closures of the console snippets started so far
    values,        \* the parsed command line: help, duration, output, top
    duration,      \* --duration
    outputFormat,  \* --output
    topCount,      \* --top
    report         \* what was printed

vars == <<pc, globals, originals, timerStats, activeTimers, timers, stackMode,
          snippets, values, duration, outputFormat, topCount, report>>

-----------------------------------------------------------------------------
(* Bounds *)

MaxAppCalls == 2
MaxWindowCalls == 3
MaxTop == 3
MaxSnippets == 2
MaxConsoleCalls == 1

-----------------------------------------------------------------------------
(* Stack traces *)

Frame(lead, fn, dir, base, line, col) ==
    [lead |-> lead, fn |-> fn, dir |-> dir, base |-> base, line |-> line, col |-> col]

ErrorLine == Frame("text", "", "", "", "", "")

\* the frames of the wrappers: new Error() at 194 and at 211
InTrackedSetTimeout ==
    Frame("at ", "trackedSetTimeout", "file:///repo/scripts/", "performance-profiler.js", "194", "16")
InTrackedSetInterval ==
    Frame("at ", "trackedSetInterval", "file:///repo/scripts/", "performance-profiler.js", "211", "16")

OwnFrame(fn, line, col) ==
    Frame("at ", fn, "file:///repo/scripts/", "performance-profiler.js", line, col)

\* call sites of the observed application
SiteA(lead) == Frame(lead, "poll", "/app/src/", "a.js", "10", "5")
SiteB(lead) == Frame(lead, "", "/app/src/", "b.js", "20", "3")

AbsentStack == ""
StructuredStack == "[object Array]"
NoStack == "(not captured)"

\* runProfiler's own scheduling calls (lines 384 - 388), as V8 captures them
Own384 == "Error | at trackedSetInterval (performance-profiler.js:211:16) | at runProfiler (performance-profiler.js:384:2)"
Own385 == "Error | at trackedSetInterval (performance-profiler.js:211:16) | at runProfiler (performance-profiler.js:385:2)"
Own386 == "Error | at trackedSetTimeout (performance-profiler.js:194:16) | at runProfiler (performance-profiler.js:386:2)"
Own387 == "Error | at trackedSetInterval (performance-profiler.js:211:16) | at Timeout._onTimeout (performance-profiler.js:387:3)"

\* an application call from SiteA, as V8 captures it in either wrapper
V8TimeoutA == "Error | at trackedSetTimeout (performance-profiler.js:194:16) | at poll (/app/src/a.js:10:5)"
V8IntervalA == "Error | at trackedSetInterval (performance-profiler.js:211:16) | at poll (/app/src/a.js:10:5)"

\* synthetic traces: the message line, then the caller's frame with a tab after "at"
SyntheticA == "Error | at\tpoll (/app/src/a.js:10:5)"
SyntheticB == "Error | at\t/app/src/b.js:20:3"

\* SyntheticA from another directory, SyntheticA at another column, and
\* SyntheticB from another directory
SyntheticADir == "Error | at\tpoll (/srv/lib/a.js:10:5)"
SyntheticACol == "Error | at\tpoll (/app/src/a.js:10:9)"
SyntheticBDir == "Error | at\t/srv/lib/b.js:20:3"

\* the message line alone: a trace without frames (Error.stackTraceLimit = 0)
MessageOnly == "Error"

\* stack.split('\n')
Lines(stack) ==
    CASE stack = MessageOnly -> <<ErrorLine>>
      [] stack = Own384 -> <<ErrorLine, InTrackedSetInterval, OwnFrame("runProfiler", "384", "2")>>
      [] stack = Own385 -> <<ErrorLine, InTrackedSetInterval, OwnFrame("runProfiler", "385", "2")>>
      [] stack = Own386 -> <<ErrorLine, InTrackedSetTimeout, OwnFrame("runProfiler", "386", "2")>>
      [] stack = Own387 -> <<ErrorLine, InTrackedSetInterval, OwnFrame("Timeout._onTimeout", "387", "3")>>
      [] stack = V8TimeoutA -> <<ErrorLine, InTrackedSetTimeout, SiteA("at ")>>
      [] stack = V8IntervalA -> <<ErrorLine, InTrackedSetInterval, SiteA("at ")>>
      [] stack = SyntheticA -> <<ErrorLine, SiteA("at\t")>>
      [] stack = SyntheticB -> <<ErrorLine, SiteB("at\t")>>
      [] stack = SyntheticADir ->
            <<ErrorLine, Frame("at\t", "poll", "/srv/lib/", "a.js", "10", "5")>>
      [] stack = SyntheticACol ->
            <<ErrorLine, Frame("at\t", "poll", "/app/src/", "a.js", "10", "9")>>
      [] stack = SyntheticBDir ->
            <<ErrorLine, Frame("at\t", "", "/srv/lib/", "b.js", "20", "3")>>

\* the stacks a wrapped application call of `type` may capture
AppStacks(type) ==
    {IF type = "setTimeout" THEN V8TimeoutA ELSE V8IntervalA, SyntheticA, SyntheticB}

TimerTypes == {"setTimeout", "setInterval"}
ClearNames == {"clearTimeout", "clearInterval"}

\* `new Error().stack` inside a wrapper, given the trace the runtime would format
Captured(trace) == IF stackMode = "structured" THEN StructuredStack ELSE trace

-----------------------------------------------------------------------------
(* extractCallSiteSignature, extractCallerInfo, recordTimerCall *)

UnknownSignature == "<unknown>"

\* mutant: another spelling
UnknownCallSite_Misspelt == "<unknown callsite>"

UnknownCallSite == "<unknown call site>"

\* mutant: the whole path
Basename_FullPath(l) == l.dir \o l.base

\* filePath.split('/').pop() || filePath
Basename(l) == IF l.base # "" THEN l.base ELSE l.dir \o l.base

\* line.startsWith('at ') on the trimmed line
StartsWithAtSpace(l) == l.lead = "at "

\* !line on the trimmed line
IsBlank(l) == l.lead = ""

\* /at\s+(?:([^\s]+)\s+)?\(?([^\s]+?):(\d+):(\d+)\)?/ finds a frame
MatchesLocation(l) == l.lead \in {"at ", "at\t"}

\* /at\s+([^\s]+)\s+\(?([^\s]+?):(\d+):(\d+)\)?/ : the function name is required
MatchesNamedLocation(l) == l.lead \in {"at ", "at\t"} /\ l.fn # ""

FormatSignature(l) ==
    IF l.fn # ""
    THEN Basename(l) \o ":" \o l.line \o " (" \o l.fn \o ")"
    ELSE Basename(l) \o ":" \o l.line

RECURSIVE ScanSignature(_, _)
ScanSignature(lines, i) ==
    IF i > Len(lines) THEN UnknownCallSite
    ELSE IF IsBlank(lines[i]) \/ StartsWithAtSpace(lines[i]) THEN ScanSignature(lines, i + 1)
    ELSE IF MatchesLocation(lines[i]) THEN FormatSignature(lines[i])
    ELSE ScanSignature(lines, i + 1)

\* mutant: one sentinel for both fallbacks
extractCallSiteSignature_OneSentinel(stack) ==
    IF stack = AbsentStack THEN UnknownCallSite
    ELSE ScanSignature(Lines(stack), 2)

\* lines[0] is Sequence index 1: the loop `for (let i = 1; ...)` starts at index 2
extractCallSiteSignature(stack) ==
    IF stack = AbsentStack THEN UnknownSignature
    ELSE ScanSignature(Lines(stack), 2)

FormatCaller(l) == l.fn \o " (" \o Basename(l) \o ":" \o l.line \o ")"

RECURSIVE ScanCaller(_, _, _)
ScanCaller(lines, i, end) ==
    IF i > end THEN UnknownSignature
    ELSE IF MatchesNamedLocation(lines[i]) THEN FormatCaller(lines[i])
    ELSE ScanCaller(lines, i + 1, end)

Min(a, b) == IF a < b THEN a ELSE b

\* `for (let i = 2; i < Math.min(lines.length, 5); i++)`: Sequence indices 3 .. min(len, 5)
extractCallerInfo(stack) ==
    IF stack = AbsentStack THEN UnknownSignature
    ELSE ScanCaller(Lines(stack), 3, Min(Len(Lines(stack)), 5))

\* stack.split throws a TypeError when the stack is truthy and not a string
Throws(stack) == stack = StructuredStack

IndexOf(stats, signature) ==
    IF \E i \in 1..Len(stats) : stats[i].signature = signature
    THEN CHOOSE i \in 1..Len(stats) : stats[i].signature = signature
    ELSE 0

\* mutant: a call with a known signature starts its record again
recordTimerCall_StartsAgain(stats, type, stack) ==
    LET signature == extractCallSiteSignature(stack)
        i == IndexOf(stats, signature)
    IN  IF i # 0
        THEN [stats EXCEPT ![i].count = 1, ![i].type = type]
        ELSE Append(stats, [count |-> 1, type |-> type, signature |-> signature,
                            stack |-> stack, caller |-> extractCallerInfo(stack)])

\* mutant: a new record starts with count 0
recordTimerCall_CountsFromZero(stats, type, stack) ==
    LET signature == extractCallSiteSignature(stack)
        i == IndexOf(stats, signature)
    IN  IF i # 0
        THEN [stats EXCEPT ![i].count = @ + 1, ![i].type = type]
        ELSE Append(stats, [count |-> 0, type |-> type, signature |-> signature,
                            stack |-> stack, caller |-> extractCallerInfo(stack)])

\* mutant: an existing record takes the caller of the latest call
recordTimerCall_UpdatesCaller(stats, type, stack) ==
    LET signature == extractCallSiteSignature(stack)
        i == IndexOf(stats, signature)
    IN  IF i # 0
        THEN [stats EXCEPT ![i].count = @ + 1, ![i].type = type,
                           ![i].caller = extractCallerInfo(stack)]
        ELSE Append(stats, [count |-> 1, type |-> type, signature |-> signature,
                            stack |-> stack, caller |-> extractCallerInfo(stack)])

\* mutant: an existing record keeps the type of its first call
recordTimerCall_KeepsType(stats, type, stack) ==
    LET signature == extractCallSiteSignature(stack)
        i == IndexOf(stats, signature)
    IN  IF i # 0
        THEN [stats EXCEPT ![i].count = @ + 1]
        ELSE Append(stats, [count |-> 1, type |-> type, signature |-> signature,
                            stack |-> stack, caller |-> extractCallerInfo(stack)])

\* mutant: an existing record's count is not incremented
recordTimerCall_NoIncrement(stats, type, stack) ==
    LET signature == extractCallSiteSignature(stack)
        i == IndexOf(stats, signature)
    IN  IF i # 0
        THEN [stats EXCEPT ![i].type = type]
        ELSE Append(stats, [count |-> 1, type |-> type, signature |-> signature,
                            stack |-> stack, caller |-> extractCallerInfo(stack)])

recordTimerCall(stats, type, stack) ==
    LET signature == extractCallSiteSignature(stack)
        i == IndexOf(stats, signature)
    IN  IF i # 0
        THEN [stats EXCEPT ![i].count = @ + 1, ![i].type = type]
        ELSE Append(stats, [count |-> 1, type |-> type, signature |-> signature,
                            stack |-> stack, caller |-> extractCallerInfo(stack)])

-----------------------------------------------------------------------------
(* The command line (lines 45 - 90) *)

\* An option value is the sequence of its characters.  A JavaScript number is
\* [nan |-> FALSE, n |-> the integer] or NaN.
Num(n) == [nan |-> FALSE, n |-> n]
NaN == [nan |-> TRUE, n |-> 0]

IsWhitespace(c) == c \in {" ", "\t"}

Digits == <<"0", "1", "2", "3", "4", "5", "6", "7", "8", "9">>

IsDigit(c) == \E k \in 1..Len(Digits) : Digits[k] = c

DigitValue(c) == (CHOOSE k \in 1..Len(Digits) : Digits[k] = c) - 1

RECURSIVE SkipWhitespace(_, _)
SkipWhitespace(str, i) ==
    IF i <= Len(str) /\ IsWhitespace(str[i]) THEN SkipWhitespace(str, i + 1) ELSE i

\* the value of the longest run of decimal digits that starts at str[i]
RECURSIVE ParseDigits(_, _, _)
ParseDigits(str, i, acc) ==
    IF i <= Len(str) /\ IsDigit(str[i])
    THEN ParseDigits(str, i + 1, 10 * acc + DigitValue(str[i]))
    ELSE acc

\* A double holds no integer of more than MaxFiniteDigits decimal digits:
\* parseInt gives Infinity for it.  Infinity is the number InfinityValue, which
\* is greater than every integer computed here.
MaxFiniteDigits == 309
InfinityValue == 2147483647

RECURSIVE SkipZeros(_, _)
SkipZeros(str, i) ==
    IF i <= Len(str) /\ str[i] = "0" THEN SkipZeros(str, i + 1) ELSE i

\* the length of the run of decimal digits that starts at str[i]
DigitRun(str, i) ==
    LET others == {k \in i..Len(str) : ~IsDigit(str[k])}
    IN  IF others = {} THEN Len(str) + 1 - i
        ELSE (CHOOSE k \in others : \A m \in others : k <= m) - i

Overflows(str, i) == DigitRun(str, SkipZeros(str, i)) > MaxFiniteDigits

\* parseInt(str, 10): leading whitespace, an optional sign, then the longest
\* prefix of decimal digits; NaN when there is no digit there, Infinity or
\* -Infinity when the digits are beyond the range of a double
ParseInt(str) ==
    LET i == SkipWhitespace(str, 1)
        signed == i <= Len(str) /\ str[i] \in {"+", "-"}
        j == IF signed THEN i + 1 ELSE i
        negative == signed /\ str[i] = "-"
    IN  IF j > Len(str) \/ ~IsDigit(str[j]) THEN NaN
        ELSE IF Overflows(str, j)
             THEN (IF negative THEN Num(0 - InfinityValue) ELSE Num(InfinityValue))
        ELSE IF negative THEN Num(0 - ParseDigits(str, j, 0))
        ELSE Num(ParseDigits(str, j, 0))

\* x || d : NaN and 0 are falsy
OrElse(x, d) == IF x.nan \/ x.n = 0 THEN d ELSE x

\* Math.max(a, b): NaN when either is NaN
MathMax(a, b) ==
    IF a.nan \/ b.nan THEN NaN ELSE IF a.n >= b.n THEN a ELSE b

\* isNaN(x)
IsNaN(x) == x.nan

\* x < n: false for NaN
LessThan(x, n) == ~x.nan /\ x.n < n

UpperCase == <<"A", "B", "C", "D", "E", "F", "G", "H", "I", "J", "K", "L", "M",
               "N", "O", "P", "Q", "R", "S", "T", "U", "V", "W", "X", "Y", "Z">>
LowerCase == <<"a", "b", "c", "d", "e", "f", "g", "h", "i", "j", "k", "l", "m",
               "n", "o", "p", "q", "r", "s", "t", "u", "v", "w", "x", "y", "z">>

\* String.prototype.toLowerCase
ToLowerCase(str) ==
    [i \in 1..Len(str) |->
        IF \E k \in 1..Len(UpperCase) : UpperCase[k] = str[i]
        THEN LowerCase[CHOOSE k \in 1..Len(UpperCase) : UpperCase[k] = str[i]]
        ELSE str[i]]

\* the string of a sequence of characters
RECURSIVE Text(_)
Text(str) == IF str = <<>> THEN "" ELSE Head(str) \o Text(Tail(str))

\* lines 78 - 80, on the parsed option values
ParsedDuration(v) == MathMax(Num(1), OrElse(ParseInt(v.duration), Num(2)))
ParsedOutputFormat(v) == Text(ToLowerCase(v.output))
ParsedTopCount(v) == MathMax(Num(1), OrElse(ParseInt(v.top), Num(20))).n

\* command lines: --help or not, and values of --duration, --output and --top
HelpArgs == BOOLEAN
\* a number of more digits than a double holds
HugeNumber == [k \in 1..(MaxFiniteDigits + 1) |-> "9"]

DurationArgs ==
    {<<"2">>, <<"5">>, <<" ", "7">>, <<"0">>, <<"-", "3">>, <<"1", ".", "5">>,
     <<"5", "s">>, <<"a", "b", "c">>, <<>>, HugeNumber}
OutputArgs ==
    {<<"t", "a", "b", "l", "e">>, <<"j", "s", "o", "n">>, <<"J", "S", "O", "N">>,
     <<"T", "a", "b", "l", "e">>, <<"x", "m", "l">>, <<>>}
TopArgs ==
    {<<"2", "0">>, <<"1">>, <<"0">>, <<"x">>, <<"-", "4">>, <<"2", ".", "7">>, HugeNumber}

Options(help, d, o, t) == [help |-> help, duration |-> d, output |-> o, top |-> t]

-----------------------------------------------------------------------------
(* The process-wide bindings and the runtime's timers *)

NativeBindings ==
    [setTimeout |-> "setTimeout", setInterval |-> "setInterval",
     clearTimeout |-> "clearTimeout", clearInterval |-> "clearInterval"]

TrackedBindings ==
    [setTimeout |-> "trackedSetTimeout", setInterval |-> "trackedSetInterval",
     clearTimeout |-> "trackedClearTimeout", clearInterval |-> "trackedClearInterval"]

IsWrapper(impl) ==
    impl \in {"trackedSetTimeout", "trackedSetInterval",
              "trackedClearTimeout", "trackedClearInterval"}

\* the runtime's setTimeout schedules once, its setInterval repeatedly
NativeKind(impl) == IF impl = "setTimeout" THEN "once" ELSE "repeat"

\* a timer of the runtime: kind, callback and status ("pending", or "inactive"
\* once it was cleared or, scheduled once, has fired), and for the record who
\* scheduled it and the stack the wrapper captured for it (NoStack: no wrapper)
Timer(kind, cb, owner, stack) ==
    [kind |-> kind, cb |-> cb, status |-> "pending", owner |-> owner, stack |-> stack]

Handles == DOMAIN timers
Pending == {h \in Handles : timers[h].status = "pending"}
AppHandles == {h \in Handles : timers[h].owner = "app"}

NoReport == [format |-> "none"]

TopChoices == {1, MaxTop}

\* the state when runProfiler is called (line 421), for a command line that
\* passed the validation of lines 82 - 90
Init ==
    /\ pc = "L379"
    /\ globals = NativeBindings
    /\ originals = globals
    /\ timerStats = <<>>
    /\ activeTimers = {}
    /\ timers = <<>>
    /\ stackMode \in {"string", "structured"}
    /\ snippets = <<>>
    /\ values \in {Options(FALSE, <<"2">>, o, <<ToString(t)>>) :
                      o \in {<<"t", "a", "b", "l", "e">>, <<"j", "s", "o", "n">>},
                      t \in TopChoices}
    /\ duration = ParsedDuration(values)
    /\ outputFormat = ParsedOutputFormat(values)
    /\ topCount = ParsedTopCount(values)
    /\ report = NoReport

-----------------------------------------------------------------------------
(* The wrappers *)

\* the runtime schedules a timer; the handle it returns is Len(base) + 1
NativeSchedule(base, impl, cb, owner, stack) ==
    timers' = Append(base, Timer(NativeKind(impl), cb, owner, stack))

\* trackedSetTimeout / trackedSetInterval, when recordTimerCall does not throw
trackedSchedule(base, type, original, stack, cb, owner) ==
    /\ timerStats' = recordTimerCall(timerStats, type, stack)
    /\ NativeSchedule(base, original, cb, owner, stack)
    /\ activeTimers' = activeTimers \cup {Len(base) + 1}

trackedSetTimeout(base, stack, cb, owner) ==
    trackedSchedule(base, "setTimeout", originals.setTimeout, stack, cb, owner)

\* mutant: the wrapper of setInterval calls originalSetTimeout
trackedSetInterval_CallsSetTimeout(base, stack, cb, owner) ==
    trackedSchedule(base, "setInterval", originals.setTimeout, stack, cb, owner)

trackedSetInterval(base, stack, cb, owner) ==
    trackedSchedule(base, "setInterval", originals.setInterval, stack, cb, owner)

\* a scheduling call through a binding that is not a wrapper
untrackedSchedule(base, impl, cb, owner) ==
    /\ NativeSchedule(base, impl, cb, owner, NoStack)
    /\ UNCHANGED <<timerStats, activeTimers>>

\* a call of whatever is bound to `impl`, with the stack a wrapper would capture;
\* `base` is the runtime's timer table at the time of the call
Schedule(base, impl, stack, cb, owner) ==
    IF impl = "trackedSetTimeout" THEN trackedSetTimeout(base, stack, cb, owner)
    ELSE IF impl = "trackedSetInterval" THEN trackedSetInterval(base, stack, cb, owner)
    ELSE untrackedSchedule(base, impl, cb, owner)

ScheduleThrows(impl, stack) == IsWrapper(impl) /\ Throws(stack)

\* the runtime's clearTimeout / clearInterval: either cancels a pending timer of
\* either kind, and ignores anything else
NativeClear(h) ==
    timers' = IF h \in Pending THEN [timers EXCEPT ![h].status = "inactive"] ELSE timers

\* mutant: the original is called with every handle of the active set as well
trackedClearTimeout_CancelsSet(h) ==
    /\ activeTimers' = activeTimers \ {h}
    /\ timers' = [g \in DOMAIN timers |->
                     IF g \in activeTimers \cup {h} /\ timers[g].status = "pending"
                     THEN [timers[g] EXCEPT !.status = "inactive"]
                     ELSE timers[g]]

\* mutant: the whole set is emptied
trackedClearTimeout_ClearsAll(h) ==
    /\ activeTimers' = {}
    /\ NativeClear(h)

trackedClearTimeout(h) ==
    /\ activeTimers' = activeTimers \ {h}
    /\ NativeClear(h)

\* mutant: only the handle of a repeating timer is taken out of the set
trackedClearInterval_RepeatingOnly(h) ==
    /\ activeTimers' = IF h \in Handles /\ timers[h].kind = "repeat"
                       THEN activeTimers \ {h} ELSE activeTimers
    /\ NativeClear(h)

\* mutant: the handle is forgotten but the timer is not cancelled
trackedClearInterval_NoCancel(h) ==
    /\ activeTimers' = activeTimers \ {h}
    /\ UNCHANGED timers

trackedClearInterval(h) ==
    /\ activeTimers' = activeTimers \ {h}
    /\ NativeClear(h)

Clear(impl, h) ==
    IF impl = "trackedClearTimeout" THEN trackedClearTimeout(h)
    ELSE IF impl = "trackedClearInterval" THEN trackedClearInterval(h)
    ELSE NativeClear(h) /\ UNCHANGED activeTimers

-----------------------------------------------------------------------------
(* The reporter *)

\* mutant: ascending
compare_Ascending(a, b) == a.count - b.count

\* the comparator of allCallSites.sort: (a, b) => b.count - a.count
compare(a, b) == b.count - a.count

\* Array.prototype.sort is stable: an element goes before the first one the
\* comparator puts strictly after it
InsertSorted(sorted, x) ==
    LET later == {i \in 1..Len(sorted) : compare(sorted[i], x) > 0}
        at == IF later = {} THEN Len(sorted) + 1
              ELSE CHOOSE i \in later : \A j \in later : i <= j
    IN  SubSeq(sorted, 1, at - 1) \o <<x>> \o SubSeq(sorted, at, Len(sorted))

RECURSIVE SortFrom(_, _, _)
SortFrom(list, i, sorted) ==
    IF i > Len(list) THEN sorted
    ELSE SortFrom(list, i + 1, InsertSorted(sorted, list[i]))

SortByCount(list) == SortFrom(list, 1, <<>>)

\* mutant: one record more than asked for
Slice_OneMore(list, n) == SubSeq(list, 1, Min(n + 1, Len(list)))

\* allCallSites.slice(0, topCount)
Slice(list, n) == SubSeq(list, 1, Min(n, Len(list)))

RECURSIVE SumCounts(_, _)
SumCounts(list, i) ==
    IF i > Len(list) THEN 0 ELSE list[i].count + SumCounts(list, i + 1)

\* mutant: the sum over all records of the map
TotalCalls_AllRecords(top) == SumCounts(timerStats, 1)

\* topCallSites.reduce((sum, s) => sum + s.count, 0)
TotalCalls(top) == SumCounts(top, 1)

NotANumber == -1
Infinite == -2

RECURSIVE Pow10(_)
Pow10(d) == IF d = 0 THEN 1 ELSE 10 * Pow10(d - 1)

\* mutant: the digits after the last one kept are cut off
Percentage_Truncated(count, total, digits) ==
    IF total = 0 THEN (IF count = 0 THEN NotANumber ELSE Infinite)
    ELSE (count * 100 * Pow10(digits)) \div total

\* ((count / total) * 100).toFixed(digits), in units of 10^-digits: the nearest
\* multiple, the larger one on a tie; NaN for 0/0 and Infinity for n/0
Percentage(count, total, digits) ==
    IF total = 0 THEN (IF count = 0 THEN NotANumber ELSE Infinite)
    ELSE (2 * count * 100 * Pow10(digits) + total) \div (2 * total)

\* mutant: the complete list is built from the ranked top-N
formatJsonOutput_AllFromTop(top) ==
    [format |-> "json",
     totalCalls |-> TotalCalls(top),
     activeTimers |-> Cardinality(activeTimers),
     uniqueCallSites |-> Len(timerStats),
     topCallSites |->
        [i \in 1..Len(top) |->
            [rank |-> i, signature |-> top[i].signature, caller |-> top[i].caller,
             type |-> top[i].type, count |-> top[i].count,
             percentage |-> Percentage(top[i].count, TotalCalls(top), 2)]],
     allCallSites |->
        [i \in 1..Len(top) |->
            [signature |-> top[i].signature, caller |-> top[i].caller,
             type |-> top[i].type, count |-> top[i].count]]]

formatJsonOutput(top) ==
    [format |-> "json",
     totalCalls |-> TotalCalls(top),
     activeTimers |-> Cardinality(activeTimers),
     uniqueCallSites |-> Len(timerStats),
     topCallSites |->
        [i \in 1..Len(top) |->
            [rank |-> i, signature |-> top[i].signature, caller |-> top[i].caller,
             type |-> top[i].type, count |-> top[i].count,
             percentage |-> Percentage(top[i].count, TotalCalls(top), 2)]],
     allCallSites |->
        [i \in 1..Len(timerStats) |->
            [signature |-> timerStats[i].signature, caller |-> timerStats[i].caller,
             type |-> timerStats[i].type, count |-> timerStats[i].count]]]

\* site.caller || site.signature
Label(site) == IF site.caller # "" THEN site.caller ELSE site.signature

\* the header figures, the ranked rows (before padding and truncation of the
\* label) and the frequency analysis of the first five rows, percentages in tenths
formatTableOutput(top) ==
    [format |-> "table",
     totalCalls |-> TotalCalls(top),
     activeTimers |-> Cardinality(activeTimers),
     rows |->
        [i \in 1..Len(top) |->
            [rank |-> i, count |-> top[i].count, type |-> top[i].type,
             signature |-> Label(top[i])]],
     frequency |->
        [i \in 1..Min(5, Len(top)) |->
            [index |-> i,
             percentage |-> Percentage(top[i].count, TotalCalls(top), 1),
             bar |-> Percentage(top[i].count, TotalCalls(top), 1) \div 20,
             signature |-> Label(top[i])]]]

-----------------------------------------------------------------------------
(* runProfiler *)

\* mutant: only setTimeout is wrapped
Install_TimeoutOnly ==
    /\ pc = "L379"
    /\ globals' = [globals EXCEPT !.setTimeout = "trackedSetTimeout"]
    /\ pc' = "L384"
    /\ UNCHANGED <<originals, timerStats, activeTimers, timers, stackMode, snippets,
                   values, duration, outputFormat, topCount, report>>

\* lines 379 - 382
Install ==
    /\ pc = "L379"
    /\ globals' = TrackedBindings
    /\ pc' = "L384"
    /\ UNCHANGED <<originals, timerStats, activeTimers, timers, stackMode, snippets,
                   values, duration, outputFormat, topCount, report>>

\* one of runProfiler's own scheduling calls; an exception rejects the promise
\* of runProfiler, whose catch handler (421 - 424) prints it and exits
OwnCall(at, next, impl, trace, cb) ==
    /\ pc = at
    /\ IF ScheduleThrows(impl, Captured(trace))
       THEN /\ pc' = "exited"
            /\ UNCHANGED <<timerStats, activeTimers, timers>>
       ELSE /\ pc' = next
            /\ Schedule(timers, impl, Captured(trace), cb, "profiler")
    /\ UNCHANGED <<globals, originals, stackMode, snippets, values, duration,
                   outputFormat, topCount, report>>

\* line 384: setInterval(() => {}, 500)
OwnInterval500 == OwnCall("L384", "L385", globals.setInterval, Own384, "noop")

\* line 385: setInterval(() => {}, 250)
OwnInterval250 == OwnCall("L385", "L386", globals.setInterval, Own385, "noop")

\* lines 386 - 388: setTimeout(() => { setInterval(() => {}, 100) }, 100)
OwnTimeout100 == OwnCall("L386", "L391", globals.setTimeout, Own386, "nested")

\* mutant: the wait goes through the process-wide binding
StartWait_Wrapped ==
    /\ pc = "L391"
    /\ Schedule(timers, globals.setTimeout, Captured(Own386), "resolve", "profiler")
    /\ pc' = "waiting"
    /\ UNCHANGED <<globals, originals, stackMode, snippets, values, duration,
                   outputFormat, topCount, report>>

\* lines 391 - 393: originalSetTimeout(resolve, duration * 1000)
StartWait ==
    /\ pc = "L391"
    /\ NativeSchedule(timers, originals.setTimeout, "resolve", "profiler", NoStack)
    /\ pc' = "waiting"
    /\ UNCHANGED <<globals, originals, timerStats, activeTimers, stackMode,
                   snippets, values, duration, outputFormat, topCount,
                   report>>

\* mutant: the active set is emptied at uninstall
Restore_ForgetsTimers ==
    /\ pc = "L396"
    /\ globals' = [setTimeout |-> originals.setTimeout,
                   setInterval |-> originals.setInterval,
                   clearTimeout |-> originals.clearTimeout,
                   clearInterval |-> originals.clearInterval]
    /\ activeTimers' = {}
    /\ pc' = "L402"
    /\ UNCHANGED <<originals, timerStats, timers, stackMode, snippets, values,
                   duration, outputFormat, topCount, report>>

\* mutant: the setInterval binding is restored from originalSetTimeout
Restore_Swapped ==
    /\ pc = "L396"
    /\ globals' = [setTimeout |-> originals.setTimeout,
                   setInterval |-> originals.setTimeout,
                   clearTimeout |-> originals.clearTimeout,
                   clearInterval |-> originals.clearInterval]
    /\ pc' = "L402"
    /\ UNCHANGED <<originals, timerStats, activeTimers, timers, stackMode, snippets,
                   values, duration, outputFormat, topCount, report>>

\* lines 396 - 399
Restore ==
    /\ pc = "L396"
    /\ globals' = [setTimeout |-> originals.setTimeout,
                   setInterval |-> originals.setInterval,
                   clearTimeout |-> originals.clearTimeout,
                   clearInterval |-> originals.clearInterval]
    /\ pc' = "L402"
    /\ UNCHANGED <<originals, timerStats, activeTimers, timers, stackMode, snippets,
                   values, duration, outputFormat, topCount, report>>

\* lines 402 - 408
TopCallSites == Slice(SortByCount(timerStats), topCount)

\* lines 402 - 417
Report ==
    /\ pc = "L402"
    /\ report' = IF outputFormat = "json" THEN formatJsonOutput(TopCallSites)
                 ELSE formatTableOutput(TopCallSites)
    /\ pc' = "done"
    /\ UNCHANGED <<globals, originals, timerStats, activeTimers, timers, stackMode,
                   snippets, values, duration, outputFormat, topCount>>

-----------------------------------------------------------------------------
(* The event loop and the observed application *)

\* the event loop turns only while no synchronous stretch of runProfiler runs
Idle == pc \in {"L379", "waiting", "done"}

\* the timer table once the callback of h has been taken off it
AfterFiring(h) ==
    IF timers[h].kind = "once" THEN [timers EXCEPT ![h].status = "inactive"] ELSE timers

\* mutant: a timer that fires is taken out of the active set
FireNoop_Forgets(h) ==
    /\ Idle
    /\ h \in Pending /\ timers[h].cb = "noop"
    /\ timers' = AfterFiring(h)
    /\ activeTimers' = activeTimers \ {h}
    /\ UNCHANGED <<pc, globals, originals, timerStats, stackMode, snippets, values,
                   duration, outputFormat, topCount, report>>

\* a timer whose callback does nothing fires
FireNoop(h) ==
    /\ Idle
    /\ h \in Pending /\ timers[h].cb = "noop"
    /\ timers' = AfterFiring(h)
    /\ UNCHANGED <<pc, globals, originals, timerStats, activeTimers, stackMode,
                   snippets, values, duration, outputFormat, topCount,
                   report>>

\* mutant: the timer whose callback ran is taken out of the active set
FireNested_Forgets(h) ==
    /\ Idle
    /\ h \in Pending /\ timers[h].cb = "nested"
    /\ pc' = pc
    /\ timerStats' = recordTimerCall(timerStats, "setInterval", Captured(Own387))
    /\ timers' = Append(AfterFiring(h), Timer("repeat", "noop", "profiler", Captured(Own387)))
    /\ activeTimers' = (activeTimers \ {h}) \cup {Len(timers) + 1}
    /\ UNCHANGED <<globals, originals, stackMode, snippets, values, duration,
                   outputFormat, topCount, report>>

\* the callback of line 386 fires: line 387, setInterval(() => {}, 100); an
\* exception in a timer callback is uncaught and ends the process
FireNested(h) ==
    /\ Idle
    /\ h \in Pending /\ timers[h].cb = "nested"
    /\ IF ScheduleThrows(globals.setInterval, Captured(Own387))
       THEN /\ pc' = "exited"
            /\ timers' = AfterFiring(h)
            /\ UNCHANGED <<timerStats, activeTimers>>
       ELSE /\ pc' = pc
            /\ Schedule(AfterFiring(h), globals.setInterval, Captured(Own387), "noop",
                        "profiler")
    /\ UNCHANGED <<globals, originals, stackMode, snippets, values, duration,
                   outputFormat, topCount, report>>

\* the end-of-window timer fires and resolves the awaited promise; its delay,
\* duration * 1000 >= 1000, is longer than the 100 ms of line 386
FireResolve(h) ==
    /\ pc = "waiting"
    /\ h \in Pending /\ timers[h].cb = "resolve"
    /\ ~ \E u \in Pending : timers[u].cb = "nested"
    /\ timers' = AfterFiring(h)
    /\ pc' = "L396"
    /\ UNCHANGED <<globals, originals, timerStats, activeTimers, stackMode,
                   snippets, values, duration, outputFormat, topCount,
                   report>>

\* the traces a call of the binding `type` may capture: none unless it is a wrapper
TracesFor(type) == IF IsWrapper(globals[type]) THEN AppStacks(type) ELSE {NoStack}

\* a call of the binding `type` (setTimeout or setInterval) by the application;
\* an exception thrown by a wrapper reaches the application and changes nothing
AppCall(type, trace) ==
    IF ScheduleThrows(globals[type], Captured(trace))
    THEN UNCHANGED <<timerStats, activeTimers, timers>>
    ELSE Schedule(timers, globals[type], Captured(trace), "noop", "app")

\* the application schedules a timer while the event loop turns
AppSchedule(type, trace) ==
    /\ Idle
    /\ Cardinality(AppHandles) < MaxAppCalls
    /\ AppCall(type, trace)
    /\ UNCHANGED <<pc, globals, originals, stackMode, snippets, values, duration,
                   outputFormat, topCount, report>>

\* the application calls the binding `name` (clearTimeout or clearInterval) with
\* a handle it holds, or with 0: a value that is no handle
AppClear(name, h) ==
    /\ Idle
    /\ h \in AppHandles \cup {0}
    /\ Clear(globals[name], h)
    /\ UNCHANGED <<pc, globals, originals, timerStats, stackMode, snippets, values,
                   duration, outputFormat, topCount, report>>

Next ==
    \/ Install
    \/ OwnInterval500
    \/ OwnInterval250
    \/ OwnTimeout100
    \/ StartWait
    \/ Restore
    \/ Report
    \/ \E h \in Handles : FireNoop(h)
    \/ \E h \in Handles : FireNested(h)
    \/ \E h \in Handles : FireResolve(h)
    \/ \E type \in TimerTypes : \E trace \in TracesFor(type) : AppSchedule(type, trace)
    \/ \E name \in ClearNames : \E h \in AppHandles \cup {0} : AppClear(name, h)

Spec == Init /\ [][Next]_vars

\* the statements of runProfiler: once started, a synchronous stretch runs on
RunProfilerStep ==
    \/ Install
    \/ OwnInterval500
    \/ OwnInterval250
    \/ OwnTimeout100
    \/ StartWait
    \/ Restore
    \/ Report

\* Spec with the scheduling the runtime guarantees: runProfiler keeps running
\* while it has a statement to run, and a pending timer of runProfiler whose
\* delay has passed fires
LiveSpec ==
    /\ Spec
    /\ WF_vars(RunProfilerStep)
    /\ WF_vars(\E h \in Handles : FireNested(h))
    /\ WF_vars(\E h \in Handles : FireResolve(h))

\* The window alone: the application only schedules, through the wrappers, while
\* runProfiler waits.  Its behaviours are behaviours of Spec; with nothing else
\* to explore it affords more calls, hence more contents of the map at drain time.
WindowSchedule(type, trace) ==
    /\ pc = "waiting"
    /\ Cardinality(AppHandles) < MaxWindowCalls
    /\ AppCall(type, trace)
    /\ UNCHANGED <<pc, globals, originals, stackMode, snippets, values, duration,
                   outputFormat, topCount, report>>

WindowNext ==
    \/ Install
    \/ OwnInterval500
    \/ OwnInterval250
    \/ OwnTimeout100
    \/ StartWait
    \/ Restore
    \/ Report
    \/ \E h \in Handles : FireNested(h)
    \/ \E h \in Handles : FireResolve(h)
    \/ \E type \in TimerTypes : \E trace \in AppStacks(type) : WindowSchedule(type, trace)

WindowSpec == Init /\ [][WindowNext]_vars

\* The window with traces that hold no frame the parser accepts: the message
\* line alone, no trace at all, and a V8 trace.
FallbackStacks(type) ==
    {MessageOnly, AbsentStack, IF type = "setTimeout" THEN V8TimeoutA ELSE V8IntervalA}

FallbackSchedule(type, trace) ==
    /\ pc = "waiting"
    /\ Cardinality(AppHandles) < MaxWindowCalls
    /\ AppCall(type, trace)
    /\ UNCHANGED <<pc, globals, originals, stackMode, snippets, values, duration,
                   outputFormat, topCount, report>>

FallbackNext ==
    \/ Install
    \/ OwnInterval500
    \/ OwnInterval250
    \/ OwnTimeout100
    \/ StartWait
    \/ Restore
    \/ Report
    \/ \E h \in Handles : FireNested(h)
    \/ \E h \in Handles : FireResolve(h)
    \/ \E type \in TimerTypes : \E trace \in FallbackStacks(type) :
          FallbackSchedule(type, trace)

FallbackSpec == Init /\ [][FallbackNext]_vars

\* The window with single-shot calls whose traces name the same call sites
\* under different directories and columns.
SignatureStacks == {SyntheticA, SyntheticADir, SyntheticACol, SyntheticB, SyntheticBDir}

SignatureSchedule(trace) ==
    /\ pc = "waiting"
    /\ Cardinality(AppHandles) < MaxWindowCalls
    /\ AppCall("setTimeout", trace)
    /\ UNCHANGED <<pc, globals, originals, stackMode, snippets, values, duration,
                   outputFormat, topCount, report>>

SignatureNext ==
    \/ Install
    \/ OwnInterval500
    \/ OwnInterval250
    \/ OwnTimeout100
    \/ StartWait
    \/ Restore
    \/ Report
    \/ \E h \in Handles : FireNested(h)
    \/ \E h \in Handles : FireResolve(h)
    \/ \E trace \in SignatureStacks : SignatureSchedule(trace)

SignatureSpec == Init /\ [][SignatureNext]_vars

-----------------------------------------------------------------------------
(* The script from its first statement: command line, validation, one run *)

\* what the constants of lines 78 - 100 hold before they are initialised
NotCaptured ==
    [setTimeout |-> "", setInterval |-> "", clearTimeout |-> "", clearInterval |-> ""]

HelpText == [format |-> "help", stream |-> "stdout", text |-> "usage"]

OutputError ==
    [format |-> "error", stream |-> "stderr",
     text |-> "Error: --output must be \"table\" or \"json\""]

DurationError ==
    [format |-> "error", stream |-> "stderr",
     text |-> "Error: --duration must be a positive number"]

CliInit ==
    /\ pc = "L72"
    /\ globals = NativeBindings
    /\ originals = NotCaptured
    /\ timerStats = <<>>
    /\ activeTimers = {}
    /\ timers = <<>>
    /\ stackMode \in {"string", "structured"}
    /\ snippets = <<>>
    /\ values \in {Options(h, d, o, t) :
                      h \in HelpArgs, d \in DurationArgs, o \in OutputArgs, t \in TopArgs}
    /\ duration = NaN
    /\ outputFormat = ""
    /\ topCount = 0
    /\ report = NoReport

\* mutant: the usage text is printed and the script goes on
ShowHelp_Continues ==
    /\ pc = "L72"
    /\ IF values.help
       THEN report' = HelpText /\ pc' = "L78"
       ELSE report' = report /\ pc' = "L78"
    /\ UNCHANGED <<globals, originals, timerStats, activeTimers, timers, stackMode,
                   snippets, values, duration, outputFormat, topCount>>

\* lines 72 - 75
ShowHelp ==
    /\ pc = "L72"
    /\ IF values.help
       THEN report' = HelpText /\ pc' = "exit0"
       ELSE report' = report /\ pc' = "L78"
    /\ UNCHANGED <<globals, originals, timerStats, activeTimers, timers, stackMode,
                   snippets, values, duration, outputFormat, topCount>>

\* lines 78 - 80
ParseOptions ==
    /\ pc = "L78"
    /\ duration' = ParsedDuration(values)
    /\ outputFormat' = ParsedOutputFormat(values)
    /\ topCount' = ParsedTopCount(values)
    /\ pc' = "L82"
    /\ UNCHANGED <<globals, originals, timerStats, activeTimers, timers, stackMode,
                   snippets, values, report>>

\* mutant: the message is printed and the script goes on
ValidateOutput_NoExit ==
    /\ pc = "L82"
    /\ IF outputFormat # "table" /\ outputFormat # "json"
       THEN report' = OutputError /\ pc' = "L87"
       ELSE report' = report /\ pc' = "L87"
    /\ UNCHANGED <<globals, originals, timerStats, activeTimers, timers, stackMode,
                   snippets, values, duration, outputFormat, topCount>>

\* lines 82 - 85
ValidateOutput ==
    /\ pc = "L82"
    /\ IF outputFormat # "table" /\ outputFormat # "json"
       THEN report' = OutputError /\ pc' = "exit1"
       ELSE report' = report /\ pc' = "L87"
    /\ UNCHANGED <<globals, originals, timerStats, activeTimers, timers, stackMode,
                   snippets, values, duration, outputFormat, topCount>>

\* lines 87 - 90
ValidateDuration ==
    /\ pc = "L87"
    /\ IF IsNaN(duration) \/ LessThan(duration, 1)
       THEN report' = DurationError /\ pc' = "exit1"
       ELSE report' = report /\ pc' = "L93"
    /\ UNCHANGED <<globals, originals, timerStats, activeTimers, timers, stackMode,
                   snippets, values, duration, outputFormat, topCount>>

\* lines 93 - 100; runProfiler is then called (line 421)
CaptureOriginals ==
    /\ pc = "L93"
    /\ originals' = globals
    /\ timerStats' = <<>>
    /\ activeTimers' = {}
    /\ pc' = "L379"
    /\ UNCHANGED <<globals, timers, stackMode, snippets, values, duration,
                   outputFormat, topCount, report>>

\* the script run on any command line, with an application that schedules nothing
CliNext ==
    \/ ShowHelp
    \/ ParseOptions
    \/ ValidateOutput
    \/ ValidateDuration
    \/ CaptureOriginals
    \/ Install
    \/ OwnInterval500
    \/ OwnInterval250
    \/ OwnTimeout100
    \/ StartWait
    \/ Restore
    \/ Report
    \/ \E h \in Handles : FireNested(h)
    \/ \E h \in Handles : FireResolve(h)

CliSpec == CliInit /\ [][CliNext]_vars

-----------------------------------------------------------------------------
(* The console snippet (docs: "Console Profiler Snippet") *)

\* In the snippet a stack is the sequence of its lines, <<>> when there is
\* none.  The wrapper of the binding `name` that the i-th started snippet
\* installs is WrapperOf(i, name); its closure is snippets[i].
BindingNames == {"setTimeout", "setInterval", "clearTimeout", "clearInterval"}

WrapperOf(i, name) == "snippet" \o ToString(i) \o "." \o name

IsSnippetWrapper(impl, sn) ==
    \E i \in 1..Len(sn) : \E name \in BindingNames : impl = WrapperOf(i, name)

SnippetOf(impl, sn) ==
    CHOOSE i \in 1..Len(sn) : \E name \in BindingNames : impl = WrapperOf(i, name)

NameOf(impl, sn) ==
    CHOOSE name \in BindingNames : impl = WrapperOf(SnippetOf(impl, sn), name)

\* the frame of `new Error()` in a wrapper of the snippet
ConsoleWrapperFrame(type) ==
    IF type = "setTimeout"
    THEN Frame("at ", "window.setTimeout", "", "<anonymous>", "492", "25")
    ELSE Frame("at ", "window.setInterval", "", "<anonymous>", "499", "26")

\* the frame of a wrapper that called what it captured as the original
ConsoleOuterFrame(type) ==
    IF type = "setTimeout"
    THEN Frame("at ", "window.setTimeout", "", "<anonymous>", "493", "14")
    ELSE Frame("at ", "window.setInterval", "", "<anonymous>", "500", "14")

\* the snippet's own call: setTimeout(() => { ... }, 5000)
ConsoleWait == "Error | at window.setTimeout (<anonymous>:492:25) | at <anonymous>:518:2"

ConsoleCallerFrame(trace) ==
    IF trace = ConsoleWait THEN Frame("at ", "", "", "<anonymous>", "518", "2")
    ELSE Lines(trace)[3]

\* the traces an application call of `type` may have: from SiteA as V8 formats
\* it, or the synthetic trace of SiteA
ConsoleStacks(type) ==
    {IF type = "setTimeout" THEN V8TimeoutA ELSE V8IntervalA, SyntheticA}

\* `new Error().stack` in a wrapper that `depth` wrappers called in turn: the
\* message line, the wrapper's frame, the frames of the calling wrappers and the
\* caller's frame; a synthetic trace is what it is
ConsoleStackOf(type, trace, depth) ==
    IF trace = SyntheticA THEN Lines(trace)
    ELSE <<ErrorLine, ConsoleWrapperFrame(type)>>
             \o [k \in 1..depth |-> ConsoleOuterFrame(type)]
             \o <<ConsoleCallerFrame(trace)>>

\* path.split('/').pop()
ConsoleFilename(l) == l.base

ConsoleFormat(l) ==
    IF l.fn # ""
    THEN ConsoleFilename(l) \o ":" \o l.line \o " (" \o l.fn \o ")"
    ELSE ConsoleFilename(l) \o ":" \o l.line

RECURSIVE ScanCallSite(_, _)
ScanCallSite(lines, i) ==
    IF i > Len(lines) THEN "<unknown>"
    ELSE IF MatchesLocation(lines[i]) THEN ConsoleFormat(lines[i])
    ELSE ScanCallSite(lines, i + 1)

\* lines[0] is Sequence index 1: the loop starts at index 2
extractCallSite(stack) ==
    IF stack = <<>> THEN "<unknown>" ELSE ScanCallSite(stack, 2)

IndexOfSite(stats, site) ==
    IF \E i \in 1..Len(stats) : stats[i].site = site
    THEN CHOOSE i \in 1..Len(stats) : stats[i].site = site
    ELSE 0

recordTimer(stats, type, stack) ==
    LET site == extractCallSite(stack)
        i == IndexOfSite(stats, site)
    IN  IF i # 0
        THEN [stats EXCEPT ![i].count = @ + 1, ![i].type = type]
        ELSE Append(stats, [count |-> 1, type |-> type, site |-> site, stack |-> stack])

\* a call of `impl`, bound to setTimeout or setInterval (`type`): a wrapper
\* records the call in its closure, calls its original, which may be another
\* wrapper, and adds the handle it gets to its set.  The result is the closures,
\* the runtime's timers and the handle.  The timer remembers the caller's trace
\* when a wrapper saw the call.
RECURSIVE ConsoleCall(_, _, _, _, _, _, _, _)
ConsoleCall(impl, type, trace, depth, cb, owner, sn, tm) ==
    IF ~IsSnippetWrapper(impl, sn)
    THEN [snippets |-> sn,
          timers |-> Append(tm, Timer(NativeKind(impl), cb, owner,
                                      IF depth = 0 THEN NoStack ELSE trace)),
          id |-> Len(tm) + 1]
    ELSE LET i == SnippetOf(impl, sn)
             recorded == [sn EXCEPT ![i].timerStats =
                             recordTimer(@, type, ConsoleStackOf(type, trace, depth))]
             r == ConsoleCall(sn[i].originals[type], type, trace, depth + 1, cb, owner,
                              recorded, tm)
         IN  [snippets |-> [r.snippets EXCEPT ![i].activeTimers = @ \cup {r.id}],
              timers |-> r.timers,
              id |-> r.id]

\* a call of `impl`, bound to clearTimeout or clearInterval: the closures once
\* every wrapper on the way has deleted the handle from its set
RECURSIVE ConsoleClearChain(_, _, _)
ConsoleClearChain(impl, h, sn) ==
    IF ~IsSnippetWrapper(impl, sn) THEN sn
    ELSE LET i == SnippetOf(impl, sn)
         IN  ConsoleClearChain(sn[i].originals[NameOf(impl, sn)], h,
                               [sn EXCEPT ![i].activeTimers = @ \ {h}])

\* the callback of the i-th snippet's own timer
RestoreCallback(i) == "restore" \o ToString(i)

\* the lines the snippet prints: total, active timers, and a row for each of
\* the 20 most frequent call sites, percentages in tenths
ConsoleReport(closure) ==
    LET results == Slice(SortByCount(closure.timerStats), 20)
    IN  [format |-> "console",
         totalCalls |-> SumCounts(results, 1),
         activeTimers |-> Cardinality(closure.activeTimers),
         rows |-> [k \in 1..Len(results) |->
                     [index |-> k,
                      percentage |-> Percentage(results[k].count, SumCounts(results, 1), 1),
                      count |-> results[k].count, type |-> results[k].type,
                      site |-> results[k].site]]]

ConsoleInit ==
    /\ pc = "console"
    /\ globals = NativeBindings
    /\ originals = NotCaptured
    /\ timerStats = <<>>
    /\ activeTimers = {}
    /\ timers = <<>>
    /\ stackMode = "string"
    /\ snippets = <<>>
    /\ values = Options(FALSE, <<>>, <<>>, <<>>)
    /\ duration = NaN
    /\ outputFormat = ""
    /\ topCount = 0
    /\ report = NoReport

Running == {i \in 1..Len(snippets) : ~snippets[i].ended}

\* mutant: a snippet that keeps the true originals whatever is installed
StartSnippet_KeepsNatives ==
    /\ Len(snippets) < MaxSnippets
    /\ LET i == Len(snippets) + 1
           closure == [originals |-> NativeBindings, timerStats |-> <<>>,
                       activeTimers |-> {}, ended |-> FALSE, report |-> NoReport]
           r == ConsoleCall(WrapperOf(i, "setTimeout"), "setTimeout", ConsoleWait, 0,
                            RestoreCallback(i), "profiler", Append(snippets, closure),
                            timers)
       IN  /\ globals' = [name \in BindingNames |-> WrapperOf(i, name)]
           /\ snippets' = r.snippets
           /\ timers' = r.timers
    /\ UNCHANGED <<pc, originals, timerStats, activeTimers, stackMode, values, duration,
                   outputFormat, topCount, report>>

\* the snippet is pasted and runs: it captures the four bindings as they
\* are, installs its wrappers and schedules its end with setTimeout, which
\* is its own wrapper by then
StartSnippet ==
    /\ Len(snippets) < MaxSnippets
    /\ LET i == Len(snippets) + 1
           closure == [originals |-> globals, timerStats |-> <<>>,
                       activeTimers |-> {}, ended |-> FALSE, report |-> NoReport]
           r == ConsoleCall(WrapperOf(i, "setTimeout"), "setTimeout", ConsoleWait, 0,
                            RestoreCallback(i), "profiler", Append(snippets, closure),
                            timers)
       IN  /\ globals' = [name \in BindingNames |-> WrapperOf(i, name)]
           /\ snippets' = r.snippets
           /\ timers' = r.timers
    /\ UNCHANGED <<pc, originals, timerStats, activeTimers, stackMode, values, duration,
                   outputFormat, topCount, report>>

\* the i-th snippet's timer fires after its 5 seconds, the timers of the
\* snippets started before it having fired: the bindings are set to what the
\* snippet captured and the results are printed
EndSnippet(i, h) ==
    /\ i \in Running
    /\ h \in Pending /\ timers[h].cb = RestoreCallback(i)
    /\ \A j \in 1..(i - 1) : snippets[j].ended
    /\ globals' = snippets[i].originals
    /\ snippets' = [snippets EXCEPT ![i].ended = TRUE,
                                    ![i].report = ConsoleReport(snippets[i])]
    /\ timers' = AfterFiring(h)
    /\ UNCHANGED <<pc, originals, timerStats, activeTimers, stackMode, values, duration,
                   outputFormat, topCount, report>>

\* the application calls the binding `type` while a snippet runs
ConsoleSchedule(type, trace) ==
    /\ Running # {}
    /\ Cardinality(AppHandles) < MaxConsoleCalls
    /\ LET r == ConsoleCall(globals[type], type, trace, 0, "noop", "app", snippets, timers)
       IN  snippets' = r.snippets /\ timers' = r.timers
    /\ UNCHANGED <<pc, globals, originals, timerStats, activeTimers, stackMode, values,
                   duration, outputFormat, topCount, report>>

\* the application calls the binding `name` with a handle it holds, or with 0,
\* while a snippet runs
ConsoleClear(name, h) ==
    /\ Running # {}
    /\ h \in AppHandles \cup {0}
    /\ snippets' = ConsoleClearChain(globals[name], h, snippets)
    /\ NativeClear(h)
    /\ UNCHANGED <<pc, globals, originals, timerStats, activeTimers, stackMode, values,
                   duration, outputFormat, topCount, report>>

ConsoleNext ==
    \/ StartSnippet
    \/ \E i \in 1..Len(snippets) : \E h \in Handles : EndSnippet(i, h)
    \/ \E type \in TimerTypes : \E trace \in ConsoleStacks(type) : ConsoleSchedule(type, trace)
    \/ \E name \in ClearNames : \E h \in AppHandles \cup {0} : ConsoleClear(name, h)

ConsoleSpec == ConsoleInit /\ [][ConsoleNext]_vars

-----------------------------------------------------------------------------
(* What the history in the timer table says *)

\* the stacks the wrappers have captured so far
SeenStacks == {timers[h].stack : h \in Handles} \ {NoStack}

\* the handles a wrapper returned
Tracked == {h \in Handles : timers[h].stack # NoStack}

\* the number of wrapped scheduling calls that captured `stack`
Intercepted(stack) == Cardinality({h \in Handles : timers[h].stack = stack})

\* the positions of the records of `signature`
RecordsOf(signature) == {i \in 1..Len(timerStats) : timerStats[i].signature = signature}

\* every wrapped call whose signature is that of `stack` captured `stack` itself
OnlyTraceOfItsSignature(stack) ==
    \A other \in SeenStacks :
        extractCallSiteSignature(other) = extractCallSiteSignature(stack) => other = stack

-----------------------------------------------------------------------------
(* C1 *)

\* C1: when N >= 1 wrapped scheduling calls, of either kind and whatever was
\* cancelled meanwhile, captured one and the same stack trace (and no call with
\* another trace shares its signature), the map holds exactly one record for
\* that trace's signature and its count is N.
C1_CountEqualsCalls ==
    \A stack \in SeenStacks :
        OnlyTraceOfItsSignature(stack) =>
            /\ Cardinality(RecordsOf(extractCallSiteSignature(stack))) = 1
            /\ \A i \in RecordsOf(extractCallSiteSignature(stack)) :
                  timerStats[i].count = Intercepted(stack)

\* two calls of different kinds captured SyntheticA, and one of them was cancelled
C1_Witness ==
    /\ Intercepted(SyntheticA) = 2
    /\ \E g, h \in Tracked :
          /\ timers[g].stack = SyntheticA /\ timers[g].kind = "once"
          /\ timers[h].stack = SyntheticA /\ timers[h].kind = "repeat"
          /\ h \notin activeTimers

-----------------------------------------------------------------------------
(* C2 *)

\* C2: after uninstall each of the four process-wide bindings is the reference
\* it was before install, whatever was scheduled, cancelled or fired meanwhile.
C2_RoundTrip == pc \in {"L402", "done"} => globals = NativeBindings

\* just after uninstall, with a wrapped interval of the application cancelled
\* and a wrapped single-shot timer of the application fired during the window
C2_Witness ==
    /\ pc = "L402"
    /\ \E g, h \in Tracked \cap AppHandles :
          /\ timers[g].kind = "repeat" /\ g \notin activeTimers
          /\ timers[h].kind = "once" /\ timers[h].status = "inactive" /\ h \in activeTimers

-----------------------------------------------------------------------------
(* C3 *)

IsWrapperFrame(l) == l.fn \in {"trackedSetTimeout", "trackedSetInterval"}

\* the first frame of the trace that is not a wrapper's: the caller's
CallerFrames(stack) ==
    {i \in 2..Len(Lines(stack)) :
        /\ MatchesLocation(Lines(stack)[i]) /\ ~IsWrapperFrame(Lines(stack)[i])
        /\ \A j \in 2..(i - 1) :
              ~MatchesLocation(Lines(stack)[j]) \/ IsWrapperFrame(Lines(stack)[j])}

\* the caller's frame has the shape `at fn (path:line:col)` or `at path:line:col`
HasCallerFrame(stack) ==
    \E i \in CallerFrames(stack) : Lines(stack)[i].lead = "at "

CallSite(stack) ==
    LET l == Lines(stack)[CHOOSE i \in CallerFrames(stack) : TRUE]
    IN  <<Basename(l), l.line, l.fn>>

CallsFrom(site) ==
    Cardinality({h \in Tracked :
        HasCallerFrame(timers[h].stack) /\ CallSite(timers[h].stack) = site})

\* C3: wrapped calls from distinct call sites, whose caller frame has the shape
\* `at fn (path:line:col)` or `at path:line:col`, have distinct records, and the
\* record of a call site counts the calls of that site only.
C3_DistinctCallSites ==
    \A s1 \in SeenStacks : HasCallerFrame(s1) =>
        /\ \A i \in RecordsOf(extractCallSiteSignature(s1)) :
              timerStats[i].count = CallsFrom(CallSite(s1))
        /\ \A s2 \in SeenStacks :
              (HasCallerFrame(s2) /\ CallSite(s1) # CallSite(s2)) =>
                  extractCallSiteSignature(s1) # extractCallSiteSignature(s2)

-----------------------------------------------------------------------------
(* C4 *)

\* C4: a wrapped cancellation removes exactly the handle it is given from the
\* active set, leaves the set as it is when the handle is not in it, and never
\* ends the run.
C4_CancelRemovesExactly ==
    [][\A name \in ClearNames : \A h \in AppHandles \cup {0} :
          (IsWrapper(globals[name]) /\ AppClear(name, h)) =>
              /\ activeTimers' = activeTimers \ {h}
              /\ (h \notin activeTimers => activeTimers' = activeTimers)
              /\ pc' = pc
              /\ timerStats' = timerStats]_vars

\* a wrapped interval of the application was cancelled while another wrapped
\* timer of the application stayed in the active set
C4_Witness ==
    /\ pc = "waiting"
    /\ \E g, h \in Tracked \cap AppHandles :
          /\ timers[g].kind = "repeat" /\ timers[g].status = "inactive"
          /\ g \notin activeTimers
          /\ h \in activeTimers

-----------------------------------------------------------------------------
(* C5 *)

\* C5: when an exception ends the run between install and uninstall, the four
\* original bindings are back in place when the process exits.
C5_RestoredOnExit == pc = "exited" => globals = NativeBindings

-----------------------------------------------------------------------------
(* C6 *)

\* the handle of the end-of-window timer
WaitHandles == {h \in Handles : timers[h].cb = "resolve"}

\* C6: the end-of-window timer is scheduled through the captured original: no
\* wrapper captured a stack for it, its handle is never in the active set, and
\* the counts add up to the wrapped calls alone.
C6_WaitNotRecorded ==
    /\ \A h \in WaitHandles : h \notin activeTimers /\ timers[h].stack = NoStack
    /\ TotalCalls(timerStats) = Cardinality(Tracked)

\* the window has ended: the end-of-window timer was scheduled and has fired
C6_Witness ==
    /\ pc = "done"
    /\ \E h \in WaitHandles : timers[h].status = "inactive"

-----------------------------------------------------------------------------
(* C7 *)

\* C7: only the application's scheduling calls are in the statistics: every
\* recorded call and every handle of the active set is the application's, so
\* without application calls the map and the active set are empty.
C7_OnlyApplicationCalls ==
    /\ \A h \in Tracked \cup activeTimers : timers[h].owner = "app"
    /\ AppHandles = {} => (timerStats = <<>> /\ activeTimers = {})

-----------------------------------------------------------------------------
(* C8 *)

\* non-increasing by count, and equal counts in the order of first insertion
Ranked(list) ==
    \A i, j \in 1..Len(list) : i < j =>
        /\ list[i].count >= list[j].count
        /\ list[i].count = list[j].count =>
              IndexOf(timerStats, list[i].signature) < IndexOf(timerStats, list[j].signature)

NonIncreasing(list) ==
    \A i, j \in 1..Len(list) : i < j => list[i].count >= list[j].count

\* C8: for every content of the map, the ranked top-N list is non-increasing
\* by count with equal counts in the order of first insertion, and so are the
\* lists of the structured and the tabular report.
C8_RankingStable ==
    /\ Ranked(TopCallSites)
    /\ (pc = "done" /\ outputFormat = "json") => Ranked(report.topCallSites)
    /\ (pc = "done" /\ outputFormat = "table") => NonIncreasing(report.rows)

\* a structured report of three entries whose ranking differs from the
\* insertion order: the second entry was inserted after the third
C8_Witness ==
    /\ pc = "done" /\ outputFormat = "json"
    /\ Len(report.topCallSites) = 3
    /\ IndexOf(timerStats, report.topCallSites[2].signature) >
          IndexOf(timerStats, report.topCallSites[3].signature)

-----------------------------------------------------------------------------
(* C9 *)

Abs(x) == IF x < 0 THEN 0 - x ELSE x

\* p, in units of 1/scale percent, is count / total * 100 rounded to that unit
RoundedTo(p, count, total, scale) ==
    2 * Abs(p * total - count * 100 * scale) <= total

RECURSIVE SumPercentages(_, _)
SumPercentages(list, i) ==
    IF i > Len(list) THEN 0 ELSE list[i].percentage + SumPercentages(list, i + 1)

\* every percentage of the report is the rounded count / totalDisplayedCalls * 100
EachPercentageRounded ==
    /\ outputFormat = "json" =>
          \A i \in 1..Len(report.topCallSites) :
              RoundedTo(report.topCallSites[i].percentage, report.topCallSites[i].count,
                        report.totalCalls, 100)
    /\ outputFormat = "table" =>
          \A i \in 1..Len(report.frequency) :
              RoundedTo(report.frequency[i].percentage, report.rows[i].count,
                        report.totalCalls, 10)

\* C9 as stated: each displayed percentage is count / totalDisplayedCalls * 100
\* rounded to 2 decimals (structured) or 1 decimal (tabular), and the displayed
\* percentages sum to at most 100%.
C9_SumAtMost100 ==
    pc = "done" =>
        /\ EachPercentageRounded
        /\ outputFormat = "json" => SumPercentages(report.topCallSites, 1) <= 100 * 100
        /\ outputFormat = "table" => SumPercentages(report.frequency, 1) <= 100 * 10

\* C9 as amended: each displayed percentage is count / totalDisplayedCalls * 100
\* rounded to 2 decimals (structured) or 1 decimal (tabular); the k displayed
\* percentages sum to at most 100% plus k half units of the last decimal, and in
\* the structured report to at least 100% minus k half units.
C9_SumWithinRounding ==
    pc = "done" =>
        /\ EachPercentageRounded
        /\ outputFormat = "json" =>
              2 * Abs(SumPercentages(report.topCallSites, 1) - 100 * 100)
                  <= Len(report.topCallSites)
        /\ outputFormat = "table" =>
              2 * (SumPercentages(report.frequency, 1) - 100 * 10) <= Len(report.frequency)

\* a structured report whose three percentages were each rounded up:
\* 66.67 + 16.67 + 16.67 = 100.01
C9_Witness ==
    /\ pc = "done" /\ outputFormat = "json"
    /\ Len(report.topCallSites) = 3
    /\ SumPercentages(report.topCallSites, 1) > 100 * 100

-----------------------------------------------------------------------------
(* C10 *)

-----------------------------------------------------------------------------
(* C11 *)

\* the wrapped calls whose trace has `signature`, in the order they were made
CallsOf(signature) ==
    {h \in Tracked : extractCallSiteSignature(timers[h].stack) = signature}

\* the binding whose wrapper scheduled h: the wrapper of setTimeout calls the
\* runtime's setTimeout, the wrapper of setInterval its setInterval
TypeOf(h) == IF timers[h].kind = "once" THEN "setTimeout" ELSE "setInterval"

LastOf(S) == CHOOSE h \in S : \A g \in S : g <= h

\* C11: the type of a record is the scheduling primitive of the most recent
\* wrapped call with its signature, not that of the first one.
C11_LastWriteWins ==
    \A i \in 1..Len(timerStats) :
        /\ CallsOf(timerStats[i].signature) # {}
        /\ timerStats[i].type = TypeOf(LastOf(CallsOf(timerStats[i].signature)))

\* five calls of one signature ended with a repeating one, count 5 and type
\* setInterval, and a later single-shot call made it count 6 and type setTimeout
C11_Witness ==
    \E i \in 1..Len(timerStats) :
        LET calls == CallsOf(timerStats[i].signature)
        IN  /\ timerStats[i].count = 6 /\ timerStats[i].type = "setTimeout"
            /\ \E h \in calls :
                  /\ Cardinality({g \in calls : g <= h}) = 5
                  /\ TypeOf(h) = "setInterval"

-----------------------------------------------------------------------------
(* C12 *)

\* the timer table of a run in which no wrapper is installed: the same timers
\* under the same handles, none with a captured stack
Uninstrumented(table) == [h \in DOMAIN table |-> [table[h] EXCEPT !.stack = NoStack]]

\* C12: a wrapped scheduling call records exactly one count, calls the original
\* of its own kind exactly once with the callback (and the arguments that go
\* with it) it was given, and returns the handle the original returned, which
\* joins the active set; the runtime's timers and handles are those of the same
\* call made without the wrappers.
C12_WrapperTransparent ==
    [][\A type \in TimerTypes : \A trace \in AppStacks(type) :
          WindowSchedule(type, trace) =>
              /\ SumCounts(timerStats', 1) = SumCounts(timerStats, 1) + 1
              /\ Len(timers') = Len(timers) + 1
              /\ Uninstrumented(timers') =
                    Append(Uninstrumented(timers),
                           Timer(NativeKind(type), "noop", "app", NoStack))
              /\ activeTimers' = activeTimers \cup {Len(timers')}]_vars

\* the application made a wrapped single-shot and a wrapped repeating call, and
\* the runtime holds a pending timer of the matching kind for each
C12_Witness ==
    /\ pc = "waiting"
    /\ \E g, h \in Tracked \cap AppHandles \cap Pending :
          /\ timers[g].kind = "once" /\ timers[g].stack = V8TimeoutA
          /\ timers[h].kind = "repeat" /\ timers[h].stack = V8IntervalA

-----------------------------------------------------------------------------
(* C13 *)

\* the step is a wrapped scheduling call, which returned the handle h
WrappedScheduleReturned(h) ==
    /\ Len(timers') = Len(timers) + 1
    /\ h = Len(timers')
    /\ timers'[h].stack # NoStack

\* the step is a wrapped cancellation of the handle h
WrappedClearOf(h) ==
    \E name \in ClearNames : IsWrapper(globals[name]) /\ AppClear(name, h)

\* C13: the active set is the handles the wrapped scheduling calls returned
\* less those given to a wrapped cancellation afterwards: a handle joins it
\* exactly when a wrapped scheduling call returns it and leaves it exactly
\* when a wrapped cancellation is called with it; a timer firing, the report
\* and the uninstall leave the set as it is.
C13_ActiveSetHistory ==
    [][/\ \A h \in activeTimers' \ activeTimers : WrappedScheduleReturned(h)
       /\ \A h \in activeTimers \ activeTimers' : WrappedClearOf(h)
       /\ \A h \in DOMAIN timers' :
             WrappedScheduleReturned(h) => h \in activeTimers'
       /\ \A h \in activeTimers : WrappedClearOf(h) => h \notin activeTimers']_vars

\* after the report: a wrapped single-shot timer of the application has fired
\* and is still in the set, a wrapped timer that was cancelled is not
C13_Witness ==
    /\ pc = "done"
    /\ \E g, h \in Tracked \cap AppHandles :
          /\ timers[h].kind = "once" /\ timers[h].status = "inactive"
          /\ h \in activeTimers
          /\ g \notin activeTimers

-----------------------------------------------------------------------------
(* C14, C15, C16 *)

\* no wrapper is installed, no timer was scheduled and no report is printed
NothingInstrumented ==
    /\ globals = NativeBindings
    /\ timers = <<>>
    /\ report.format \in {"none", "help", "error"}

InvalidOutput ==
    /\ ToLowerCase(values.output) # <<"t", "a", "b", "l", "e">>
    /\ ToLowerCase(values.output) # <<"j", "s", "o", "n">>

\* C14: with a value of --output other than table or json (and without --help,
\* which exits first), the script gets no further than the validation of line
\* 82, where it writes the message to the error stream and exits with status 1:
\* no wrapper is installed, no window starts and no report is printed.
C14_InvalidOutputFatal ==
    (InvalidOutput /\ ~values.help) =>
        /\ pc \in {"L72", "L78", "L82", "exit1"}
        /\ NothingInstrumented
        /\ pc = "exit1" => report = OutputError

\* the script has exited on --output xml
C14_Witness ==
    /\ pc = "exit1"
    /\ values.output = <<"x", "m", "l">>
    /\ report.stream = "stderr"

\* the value of --duration is not a number: it has no leading decimal digits
NonNumericDuration == ParseInt(values.duration).nan

\* C15: with a non-numeric value of --duration (a valid --output, no --help)
\* the script writes a message to the error stream and exits with status 1
\* before any wrapper is installed: it never gets past line 87 and no window
\* starts.
C15_NonNumericDurationFatal ==
    (NonNumericDuration /\ ~InvalidOutput /\ ~values.help) =>
        /\ pc \in {"L72", "L78", "L82", "L87", "exit1"}
        /\ NothingInstrumented
        /\ pc = "exit1" => report = DurationError

\* C16: with --help the usage text is printed and the script exits with status
\* 0 at line 74, whatever the other options are: the bindings are never
\* replaced and no window starts.
C16_HelpExitsFirst ==
    values.help =>
        /\ pc \in {"L72", "exit0"}
        /\ NothingInstrumented
        /\ pc = "exit0" => report = HelpText

\* the script has exited on --help, given together with an invalid --output
\* and a non-numeric --duration
C16_Witness ==
    /\ pc = "exit0"
    /\ values.help
    /\ InvalidOutput /\ NonNumericDuration
    /\ report.stream = "stdout"

-----------------------------------------------------------------------------
(* C17, C18 *)

\* the wrapped calls that captured `stack`
CapturedBy(stack) == {h \in Tracked : timers[h].stack = stack}

\* C17: a wrapped call whose trace is not empty and has no line with a location
\* is recorded under the signature "<unknown call site>" exactly: there is one
\* record of that signature, each such call adds one to its count, and no such
\* call ends the run.
C17_UnknownCallSiteSentinel ==
    /\ CapturedBy(MessageOnly) # {} =>
          /\ extractCallSiteSignature(MessageOnly) = "<unknown call site>"
          /\ Cardinality(RecordsOf("<unknown call site>")) = 1
          /\ \A i \in RecordsOf("<unknown call site>") :
                timerStats[i].count = Cardinality(CallsOf("<unknown call site>"))
          /\ CapturedBy(MessageOnly) \subseteq CallsOf("<unknown call site>")
    /\ stackMode = "string" => pc # "exited"

\* the report was printed after two wrapped calls whose trace was the message
\* line alone
C17_Witness ==
    /\ pc = "done"
    /\ Cardinality(CapturedBy(MessageOnly)) = 2
    /\ \E i \in RecordsOf("<unknown call site>") : timerStats[i].count >= 2

\* C18: a wrapped call without any trace text is recorded under the signature
\* "<unknown>" exactly, in a record of its own that is not the one of
\* "<unknown call site>", and the calls made after it are recorded as before.
C18_UnknownSentinel ==
    /\ CapturedBy(AbsentStack) # {} =>
          /\ extractCallSiteSignature(AbsentStack) = "<unknown>"
          /\ Cardinality(RecordsOf("<unknown>")) = 1
          /\ \A i \in RecordsOf("<unknown>") :
                timerStats[i].count = Cardinality(CapturedBy(AbsentStack))
          /\ RecordsOf("<unknown>") \cap RecordsOf("<unknown call site>") = {}
    /\ SumCounts(timerStats, 1) = Cardinality(Tracked)

\* two wrapped calls had no trace, and a call with a trace was recorded after
\* the first of them
C18_Witness ==
    /\ pc = "done"
    /\ Cardinality(CapturedBy(AbsentStack)) = 2
    /\ \E h \in CapturedBy(AbsentStack) : \E g \in Tracked :
          g > h /\ timers[g].stack = MessageOnly

-----------------------------------------------------------------------------
(* C19, C20 *)

\* C19: the total-calls figure of the table header and of the structured
\* metadata is the sum of the counts of the displayed top-N records; with more
\* distinct signatures than N it is strictly smaller than the sum over all
\* records, while the structured uniqueCallSites counts every signature.
C19_TotalOverDisplayed ==
    pc = "done" =>
        /\ report.totalCalls = SumCounts(Slice(SortByCount(timerStats), topCount), 1)
        /\ Len(timerStats) > topCount => report.totalCalls < SumCounts(timerStats, 1)
        /\ Len(timerStats) <= topCount => report.totalCalls = SumCounts(timerStats, 1)
        /\ outputFormat = "json" => report.uniqueCallSites = Len(timerStats)

\* a structured report of the top 1 of three signatures
C19_Witness ==
    /\ pc = "done" /\ outputFormat = "json"
    /\ topCount = 1
    /\ report.uniqueCallSites = 3
    /\ report.totalCalls < SumCounts(timerStats, 1)

\* C20: the complete list of the structured output holds every signature of
\* the map exactly once, in insertion order and whatever N is, and the ranked
\* array of length k carries the ranks 1 .. k in list order.
C20_CompleteListAndRanks ==
    (pc = "done" /\ outputFormat = "json") =>
        /\ Len(report.allCallSites) = Len(timerStats)
        /\ \A i \in 1..Len(timerStats) :
              /\ report.allCallSites[i].signature = timerStats[i].signature
              /\ report.allCallSites[i].count = timerStats[i].count
        /\ \A i, j \in 1..Len(report.allCallSites) :
              i # j => report.allCallSites[i].signature # report.allCallSites[j].signature
        /\ Len(report.topCallSites) = Min(topCount, Len(timerStats))
        /\ \A i \in 1..Len(report.topCallSites) : report.topCallSites[i].rank = i

\* a structured report whose complete list has three signatures, the second
\* with a smaller count than the third, and whose ranked array has one entry
C20_Witness ==
    /\ pc = "done" /\ outputFormat = "json"
    /\ Len(report.allCallSites) = 3
    /\ report.allCallSites[2].count < report.allCallSites[3].count
    /\ Len(report.topCallSites) = 1

-----------------------------------------------------------------------------
(* C21 *)

\* the records of the map that the ranked list leaves out
Omitted ==
    {i \in 1..Len(timerStats) :
        \A k \in 1..Len(TopCallSites) : TopCallSites[k].signature # timerStats[i].signature}

\* the counts the report lists, in list order
ListedCounts ==
    IF outputFormat = "json"
    THEN [k \in 1..Len(report.topCallSites) |-> report.topCallSites[k].count]
    ELSE [k \in 1..Len(report.rows) |-> report.rows[k].count]

\* C21: the report lists min(N, number of distinct signatures) records, N >= 1
\* being the value of --top, and no record it leaves out has a greater count
\* than a record it lists.
C21_TopNTruncation ==
    pc = "done" =>
        /\ topCount >= 1
        /\ Len(ListedCounts) = Min(topCount, Len(timerStats))
        /\ ListedCounts = [k \in 1..Len(TopCallSites) |-> TopCallSites[k].count]
        /\ Cardinality(Omitted) = Len(timerStats) - Len(ListedCounts)
        /\ \A i \in Omitted : \A k \in 1..Len(ListedCounts) :
              timerStats[i].count <= ListedCounts[k]

\* a table of the top 1 that leaves out two records
C21_Witness ==
    /\ pc = "done" /\ outputFormat = "table"
    /\ topCount = 1
    /\ Len(report.rows) = 1
    /\ Cardinality(Omitted) = 2

-----------------------------------------------------------------------------
(* C24 *)

\* the window is over: the originals are back and the report is printed
Completed == pc = "done" /\ globals = NativeBindings /\ report # NoReport

\* C24: every run that has installed the wrappers eventually restores the
\* originals and prints the report, whatever the application schedules and
\* cancels meanwhile.
C24_RunsToCompletion == (pc = "L384") ~> Completed

-----------------------------------------------------------------------------
(* C23 *)

\* runProfiler is between install and uninstall and the next scheduling call
\* goes through a process-wide binding: its own calls of lines 384 - 386, and
\* whatever is called while it waits, timer callbacks included (at line 391 the
\* next call is the one of originalSetTimeout, which is no binding)
BindingCallInWindow == pc \in {"L384", "L385", "L386", "waiting"}

\* the scheduling call of the step ended with an exception
CallThrew == pc' = "exited"

\* C23: every scheduling call made through a process-wide binding between
\* install and uninstall, from a timer callback or not, adds exactly one to
\* the counts, and no call made before install or after uninstall changes the
\* map: the counts at drain time add up to the number of calls in the window.
C23_EveryWindowCallOnce ==
    [][/\ (BindingCallInWindow /\ ~CallThrew) =>
             SumCounts(timerStats', 1) - SumCounts(timerStats, 1) = Len(timers') - Len(timers)
       /\ ~BindingCallInWindow => timerStats' = timerStats]_vars

\* the report was printed; the application made one call during the window,
\* which was recorded, and one after uninstall, which was not, and the callback
\* of line 386 made its call in the window
C23_Witness ==
    /\ pc = "done"
    /\ \E g, h \in AppHandles :
          /\ g < h
          /\ timers[g].stack # NoStack
          /\ timers[h].stack = NoStack
    /\ \E h \in Tracked : timers[h].stack = Own387

-----------------------------------------------------------------------------
(* C25 *)

\* C25: the originals are restored before the report is rendered, and the
\* report shows the map and the active set as they were at uninstall: the
\* uninstall changes neither, nothing is printed before it, and the step that
\* prints the report finds the bindings restored and renders the map and the
\* set that the uninstall left.
C25_ReportAfterRestore ==
    [][/\ pc = "L396" =>
             /\ timerStats' = timerStats /\ activeTimers' = activeTimers
             /\ report = NoReport /\ report' = NoReport
             /\ pc' = "L402"
       /\ pc = "L402" =>
             /\ globals = NativeBindings
             /\ timerStats' = timerStats /\ activeTimers' = activeTimers
             /\ report'.totalCalls =
                   SumCounts(Slice(SortByCount(timerStats), topCount), 1)
             /\ report'.activeTimers = Cardinality(activeTimers)
       /\ report' # report => pc = "L402"]_vars

\* the table was printed with the originals restored, for a map of two records
\* and an active set of six handles
C25_Witness ==
    /\ pc = "done" /\ outputFormat = "table"
    /\ globals = NativeBindings
    /\ Len(timerStats) = 2
    /\ report.activeTimers = 6

-----------------------------------------------------------------------------
(* C27, C28 *)

\* the leaked timers: scheduled through a wrapper and still pending
Leaked == Tracked \cap Pending

\* C27 as stated: at drain time the size of the active set is a lower bound on
\* the number of leaked timers.
C27_LowerBoundOnLeaks ==
    pc = "L402" => Cardinality(activeTimers) <= Cardinality(Leaked)

\* C27 as amended: at drain time the size of the active set is an upper bound
\* on the number of leaked timers: every leaked timer is in the set, and so is
\* every single-shot timer that fired without being cancelled.
C27_UpperBoundOnLeaks ==
    pc = "L402" =>
        /\ Leaked \subseteq activeTimers
        /\ Cardinality(activeTimers) >= Cardinality(Leaked)

\* at drain time the set holds the four handles of runProfiler's own timers
\* and one of the application, of which two single-shot timers have fired:
\* five handles for three leaked timers
C27_Witness ==
    /\ pc = "L402"
    /\ Cardinality(activeTimers) = 5
    /\ Cardinality(Leaked) = 3

\* C28: a single-shot timer scheduled through the wrapper that fires stays in
\* the active set, and the report counts every handle of the set, fired timers
\* included.
C28_FiredTimerStaysActive ==
    [][/\ \A h \in activeTimers :
             ((FireNoop(h) \/ FireNested(h)) /\ timers[h].kind = "once") =>
                 /\ timers'[h].status = "inactive"
                 /\ h \in activeTimers'
       /\ pc = "L402" => report'.activeTimers = Cardinality(activeTimers)]_vars

\* the report counts five handles: among them the profiler's single-shot timer
\* of line 386 and a single-shot timer of the application, both fired
C28_Witness ==
    /\ pc = "done"
    /\ report.activeTimers = 5
    /\ \E g, h \in Tracked \cap activeTimers :
          /\ timers[g].cb = "nested" /\ timers[g].status = "inactive"
          /\ h \in AppHandles /\ timers[h].kind = "once" /\ timers[h].status = "inactive"

-----------------------------------------------------------------------------
(* C30 *)

\* the first frame of a synthetic trace: the line after the message line
FirstFrame(stack) == Lines(stack)[2]

\* the same last path segment, line number and function name
SameSite(s1, s2) ==
    /\ FirstFrame(s1).base = FirstFrame(s2).base
    /\ FirstFrame(s1).line = FirstFrame(s2).line
    /\ FirstFrame(s1).fn = FirstFrame(s2).fn

\* "{basename}:{line} ({function})", or "{basename}:{line}" without a function
Expected(stack) ==
    LET l == FirstFrame(stack)
    IN  IF l.fn # "" THEN l.base \o ":" \o l.line \o " (" \o l.fn \o ")"
        ELSE l.base \o ":" \o l.line

\* C30: the signature is made of the basename, the line number and the
\* function name, if any, of the first matching frame: traces that differ only
\* in the directory of the path or in the column have the same signature,
\* hence one record, which counts the calls of all of them.
C30_SignatureFromBasenameLineFunction ==
    \A s1 \in SeenStacks \cap SignatureStacks :
        /\ extractCallSiteSignature(s1) = Expected(s1)
        /\ \A s2 \in SignatureStacks :
              SameSite(s1, s2) => extractCallSiteSignature(s2) = extractCallSiteSignature(s1)
        /\ Cardinality(RecordsOf(Expected(s1))) = 1
        /\ \A i \in RecordsOf(Expected(s1)) :
              timerStats[i].count =
                  Cardinality({h \in Tracked :
                      /\ timers[h].stack \in SignatureStacks
                      /\ SameSite(timers[h].stack, s1)})

\* three calls of poll at a.js:10, seen under two directories and two columns,
\* are one record "a.js:10 (poll)" of count 3
C30_Witness ==
    /\ {SyntheticA, SyntheticADir, SyntheticACol} \subseteq SeenStacks
    /\ \E i \in 1..Len(timerStats) :
          timerStats[i].signature = "a.js:10 (poll)" /\ timerStats[i].count = 3

-----------------------------------------------------------------------------
(* The console snippet against the command-line script *)

\* the application's scheduling calls in the order they were made: the binding
\* called and the trace of the call
RECURSIVE AppCallsFrom(_)
AppCallsFrom(h) ==
    IF h > Len(timers) THEN <<>>
    ELSE (IF timers[h].owner = "app"
          THEN <<[type |-> TypeOf(h), stack |-> timers[h].stack]>>
          ELSE <<>>) \o AppCallsFrom(h + 1)

\* what runProfiler schedules itself before it waits, and from its timeout
OwnCallsBeforeWait ==
    <<[type |-> "setInterval", stack |-> Own384],
      [type |-> "setInterval", stack |-> Own385],
      [type |-> "setTimeout", stack |-> Own386]>>

OwnCallInTimeout == <<[type |-> "setInterval", stack |-> Own387]>>

RECURSIVE RecordAll(_, _, _)
RecordAll(stats, calls, k) ==
    IF k > Len(calls) THEN stats
    ELSE RecordAll(recordTimerCall(stats, calls[k].type, calls[k].stack), calls, k + 1)

\* the records of the command-line script at the end of a window with the
\* application's calls, `before` of them made before the timeout of line 386 fired
CommandLineRecords(before) ==
    LET app == AppCallsFrom(1)
        calls == OwnCallsBeforeWait \o SubSeq(app, 1, before) \o OwnCallInTimeout
                     \o SubSeq(app, before + 1, Len(app))
        stats == RecordAll(<<>>, calls, 1)
    IN  {[signature |-> stats[k].signature, type |-> stats[k].type,
          count |-> stats[k].count] : k \in 1..Len(stats)}

\* the size of its active set: its own four handles and the application's
\* handles that were not cancelled
CommandLineActive ==
    Len(OwnCallsBeforeWait) + Len(OwnCallInTimeout)
        + Cardinality({h \in AppHandles : timers[h].status = "pending"})

ConsoleRecords(i) ==
    {[signature |-> snippets[i].timerStats[k].site, type |-> snippets[i].timerStats[k].type,
      count |-> snippets[i].timerStats[k].count] : k \in 1..Len(snippets[i].timerStats)}

\* C22: a window of the console snippet ends with the records (signature, type,
\* count) and the active-set size with which a window of the command-line script
\* ends after the same scheduling and cancelling calls of the application.
C22_ConsoleSameAsCommandLine ==
    (Len(snippets) = 1 /\ snippets[1].ended) =>
        /\ \E before \in 0..Cardinality(AppHandles) :
               ConsoleRecords(1) = CommandLineRecords(before)
        /\ Cardinality(snippets[1].activeTimers) = CommandLineActive

\* a step in which a snippet starts while the snippets started before it
\* run, none of them having ended
OverlappingStart ==
    /\ Len(snippets') = Len(snippets) + 1
    /\ Running # {}
    /\ Running = 1..Len(snippets)

\* C26: a snippet that starts before the snippets started earlier have ended
\* captures the wrappers of a running one as its originals, none of the
\* runtime's functions among them, and once every snippet has ended, the last
\* one having captured wrappers, the four bindings are not the runtime's functions.
C26_SecondInstallLosesOriginals ==
    [][/\ OverlappingStart =>
              \A name \in BindingNames :
                  /\ snippets'[Len(snippets')].originals[name] = globals[name]
                  /\ IsSnippetWrapper(globals[name], snippets)
                  /\ snippets'[Len(snippets')].originals[name] # NativeBindings[name]
       /\ (/\ snippets' # <<>>
           /\ Running' = {}
           /\ snippets'[Len(snippets')].originals # NativeBindings)
              => /\ globals' # NativeBindings
                 /\ \E name \in BindingNames : IsSnippetWrapper(globals'[name], snippets')]_vars

C26_Witness ==
    /\ Len(snippets) = 2
    /\ Running = {}
    /\ snippets[2].originals.setTimeout = WrapperOf(1, "setTimeout")
    /\ globals.setTimeout = WrapperOf(1, "setTimeout")

\* the frames of the snippet's wrappers
IsConsoleWrapperFrame(l) ==
    \E type \in TimerTypes : l \in {ConsoleWrapperFrame(type), ConsoleOuterFrame(type)}

\* the first line of `stack` after the message line that is not a frame of a wrapper
RECURSIVE FirstCallerFrame(_, _)
FirstCallerFrame(stack, k) ==
    IF IsConsoleWrapperFrame(stack[k]) /\ k < Len(stack)
    THEN FirstCallerFrame(stack, k + 1)
    ELSE stack[k]

\* C29: the signature of a record of the snippet is made of the first frame
\* after the wrappers' frames in the stack the wrapper captured, the frame of
\* the caller, and is never made of a wrapper's frame.
C29_SignatureOfCallerFrame ==
    \A i \in 1..Len(snippets) : \A k \in 1..Len(snippets[i].timerStats) :
        LET record == snippets[i].timerStats[k]
        IN  Len(record.stack) >= 2 =>
                /\ record.site = ConsoleFormat(FirstCallerFrame(record.stack, 2))
                /\ \A type \in TimerTypes :
                       record.site # ConsoleFormat(ConsoleWrapperFrame(type))


-----------------------------------------------------------------------------
(* C31 *)

\* the count of the record of `signature` in `stats`, 0 when there is none
CountOf(stats, signature) ==
    IF IndexOf(stats, signature) = 0 THEN 0 ELSE stats[IndexOf(stats, signature)].count

\* the step is a wrapped scheduling call whose trace has the signature `signature`
InterceptedCallOf(signature) ==
    \E h \in DOMAIN timers' :
        /\ WrappedScheduleReturned(h)
        /\ extractCallSiteSignature(timers'[h].stack) = signature

\* C31: whatever is scheduled, cancelled or fired, a record once in the map
\* stays in it, at its place and under its signature, and its count never
\* decreases: the count of a signature grows by exactly one in a wrapped
\* scheduling call with that signature and is the same after any other step.
C31_RecordsOnlyGrow ==
    [][/\ Len(timerStats') >= Len(timerStats)
       /\ \A i \in 1..Len(timerStats) :
             /\ timerStats'[i].signature = timerStats[i].signature
             /\ timerStats'[i].count >= timerStats[i].count
       /\ \A i \in 1..Len(timerStats') :
             LET signature == timerStats'[i].signature
             IN  CountOf(timerStats', signature) - CountOf(timerStats, signature) =
                     IF InterceptedCallOf(signature) THEN 1 ELSE 0]_vars

\* after the report: the record of SyntheticA counts two calls of the
\* application, one of them cancelled and the other one fired
C31_Witness ==
    /\ pc = "done"
    /\ CountOf(timerStats, extractCallSiteSignature(SyntheticA)) = 2
    /\ \E g, h \in Tracked \cap AppHandles :
          /\ timers[g].stack = SyntheticA /\ timers[h].stack = SyntheticA
          /\ g \notin activeTimers /\ timers[g].status = "inactive"
          /\ h \in activeTimers /\ timers[h].kind = "once" /\ timers[h].status = "inactive"


-----------------------------------------------------------------------------
(* C32 *)

\* the timers runProfiler scheduled itself, from its body or from its callback
OwnHandles == {h \in Handles : timers[h].owner = "profiler"}

\* C32: once the report is printed no timer that runProfiler scheduled itself
\* is pending: nothing of its own keeps the event loop turning.
C32_NoOwnTimerAfterReport == pc = "done" => OwnHandles \cap Pending = {}


-----------------------------------------------------------------------------
(* C33 *)

\* the runtime's timers once its cancellation was called, once, with h
CancelledOnce(h) ==
    [g \in DOMAIN timers |->
        IF g = h /\ timers[g].status = "pending"
        THEN [timers[g] EXCEPT !.status = "inactive"]
        ELSE timers[g]]

\* C33: a wrapped cancellation, of either kind and with any handle, leaves the
\* map as it is: the same records with the same signature, count, type and
\* caller; and the runtime's timers are those that one call of the original
\* cancellation with the same handle leaves, also for a handle the active set
\* does not hold.
C33_CancelLeavesMap ==
    [][\A name \in ClearNames : \A h \in AppHandles \cup {0} :
          (IsWrapper(globals[name]) /\ AppClear(name, h)) =>
              /\ Len(timerStats') = Len(timerStats)
              /\ \A i \in 1..Len(timerStats) :
                    /\ timerStats'[i].signature = timerStats[i].signature
                    /\ timerStats'[i].count = timerStats[i].count
                    /\ timerStats'[i].type = timerStats[i].type
                    /\ timerStats'[i].caller = timerStats[i].caller
              /\ timers' = CancelledOnce(h)]_vars

\* during the window: a wrapped timer of the application was cancelled, its
\* record still counting it, and so was a repeating timer of the application
\* scheduled before install, which the active set never held
C33_Witness ==
    /\ pc = "waiting"
    /\ \E g, h \in AppHandles :
          /\ timers[g].stack = SyntheticB /\ timers[g].status = "inactive"
          /\ g \notin activeTimers
          /\ CountOf(timerStats, extractCallSiteSignature(SyntheticB)) = 1
          /\ timers[h].stack = NoStack /\ timers[h].kind = "repeat"
          /\ timers[h].status = "inactive"


-----------------------------------------------------------------------------
(* C34 *)

\* C34: both wrapped cancellations take handles out of one and the same set,
\* whichever wrapper put the handle in: clearInterval with the handle of a
\* single-shot timer, and clearTimeout with the handle of a repeating timer,
\* take the handle out of the active set.
C34_OneSetForBothKinds ==
    [][\A h \in activeTimers :
          /\ (/\ IsWrapper(globals.clearInterval)
              /\ AppClear("clearInterval", h)
              /\ timers[h].kind = "once") => h \notin activeTimers'
          /\ (/\ IsWrapper(globals.clearTimeout)
              /\ AppClear("clearTimeout", h)
              /\ timers[h].kind = "repeat") => h \notin activeTimers']_vars

\* during the window the application cancelled a wrapped single-shot timer and
\* a wrapped repeating timer of its own: neither handle is in the set
C34_Witness ==
    /\ pc = "waiting"
    /\ \E g, h \in Tracked \cap AppHandles :
          /\ timers[g].kind = "once" /\ timers[g].status = "inactive"
          /\ timers[h].kind = "repeat" /\ timers[h].status = "inactive"
          /\ g \notin activeTimers /\ h \notin activeTimers


-----------------------------------------------------------------------------
(* C35 *)

\* C35: in every state the active set holds at most as many handles as the
\* counts of all records add up to, the number of wrapped scheduling calls so far.
C35_ActiveAtMostCalls == Cardinality(activeTimers) <= SumCounts(timerStats, 1)

\* during the window, six calls recorded: the set holds the handles of five of
\* them, the application having cancelled one of its two timers
C35_Witness ==
    /\ pc = "waiting"
    /\ SumCounts(timerStats, 1) = 6
    /\ Cardinality(activeTimers) = 5
    /\ \E g \in Tracked \cap AppHandles : g \notin activeTimers


-----------------------------------------------------------------------------
(* C36 *)

\* lines 78 - 80 have run and the script has not exited
OptionsInEffect == pc \notin {"L72", "L78", "exit0", "exit1"}

\* the value has no leading integer, or its leading integer is zero
NoNonZeroInteger(str) == ParseInt(str).nan \/ ParseInt(str).n = 0

\* C36: whatever the values of --duration and --top are, once they are parsed
\* and the script runs on, the duration and the top count are integers of at
\* least 1, 2 and 20 when the value has no non-zero leading integer, and the
\* script never prints the message of line 88.
C36_EffectiveOptionsAreIntegers ==
    /\ report # DurationError
    /\ OptionsInEffect =>
          /\ ~IsNaN(duration) /\ duration.n # InfinityValue /\ duration.n >= 1
          /\ topCount # InfinityValue /\ topCount >= 1
          /\ NoNonZeroInteger(values.duration) => duration = Num(2)
          /\ NoNonZeroInteger(values.top) => topCount = 20


-----------------------------------------------------------------------------
(* C37 *)

FirstOf(S) == CHOOSE h \in S : \A g \in S : h <= g

\* C37: the caller of a record is the caller description of the first wrapped
\* call with its signature, whatever the callers of the later calls with that
\* signature are, while its type is that of the latest one.
C37_CallerFirstWriteWins ==
    \A i \in 1..Len(timerStats) :
        LET calls == CallsOf(timerStats[i].signature)
        IN  /\ calls # {}
            /\ timerStats[i].caller = extractCallerInfo(timers[FirstOf(calls)].stack)
            /\ timerStats[i].type = TypeOf(LastOf(calls))

\* a record whose first call came from line 384 and whose latest call was a
\* single-shot one of the application from poll: it has the caller of the first
\* call and the type of the latest
C37_Witness ==
    \E i \in 1..Len(timerStats) :
        LET calls == CallsOf(timerStats[i].signature)
        IN  /\ timers[FirstOf(calls)].stack = Own384
            /\ timers[LastOf(calls)].stack = V8TimeoutA
            /\ extractCallerInfo(V8TimeoutA) # extractCallerInfo(Own384)
            /\ timerStats[i].caller = "runProfiler (performance-profiler.js:384)"
            /\ timerStats[i].type = "setTimeout"

=============================================================================
